---- MODULE Spec2Model ----
(***************************************************************************)
(* Model of the `aq` command-line driver (src/src/main.rs, fn main).       *)
(*                                                                         *)
(* One run of the process, from the return of AqArgs::parse() to the       *)
(* process exit: input acquisition (named files or STDIN), parsing of the  *)
(* texts, aggregation into one root node, and the write to the output      *)
(* file or to STDOUT.  The environment (file system, STDIN, STDOUT device, *)
(* output file device) is chosen in Init and is fixed during the run.      *)
(***************************************************************************)
EXTENDS Integers, Sequences, FiniteSets, TLC

\* Upper bound on the number of INPUT_FILES given on the command line.
MaxFiles == 3

\* Exit status of a Rust process whose main thread panics.
PanicExitCode == 101

\* Option<T>: None is <<>>, Some(x) is <<x>>.
None == <<>>
Some(x) == <<x>>

(***************************************************************************)
(* The file system the run sees: the text of every readable path.          *)
(* "missing.ason" does not exist; "bad.ason" holds text that is not ASON.  *)
(***************************************************************************)
Paths == {"a.ason", "b.ason", "bad.ason", "missing.ason"}

Readable(f) == f \in {"a.ason", "b.ason", "bad.ason"}

FileText(f) ==
    CASE f = "a.ason" -> " 11 "
      [] f = "b.ason" -> "\"x\""
      [] f = "bad.ason" -> "{id:"

\* The message of the std::io::Error of a failed read or write.
IoErrorMsg == "os error"

\* What STDIN delivers: a text, or a read error.
StdinSources == {"[1,2]", "{id:", "EIO"}

(***************************************************************************)
(* ason::ast::AsonNode values (the variants the texts above parse to).     *)
(***************************************************************************)
Leaf(tag, lit) == [tag |-> tag, lit |-> lit, items |-> <<>>]
Composite(tag, ns) == [tag |-> tag, lit |-> "", items |-> ns]
Tuple(ns) == Composite("Tuple", ns)

\* parse_from_str: Ok(node) or Err(e); whitespace is not part of the node.
parse_from_str(text) ==
    CASE text = " 11 " -> [ok |-> TRUE, node |-> Leaf("Number", "11")]
      [] text = "\"x\"" -> [ok |-> TRUE, node |-> Leaf("String", "x")]
      [] text = "[1,2]" ->
            [ok |-> TRUE,
             node |-> Composite("List", <<Leaf("Number", "1"), Leaf("Number", "2")>>)]
      [] OTHER -> [ok |-> FALSE, node |-> Leaf("Error", text)]

\* e.with_source(&text): the parse error rendered against the source text.
with_source(text) == "parse error in: " \o text

RECURSIVE JoinStr(_, _)
JoinStr(strs, sep) ==
    IF Len(strs) = 0 THEN ""
    ELSE IF Len(strs) = 1 THEN strs[1]
    ELSE strs[1] \o sep \o JoinStr(Tail(strs), sep)

\* print_to_string / print_to_writer: the canonical text of a node.
RECURSIVE print_to_string(_)
print_to_string(n) ==
    CASE n.tag = "Number" -> n.lit
      [] n.tag = "String" -> "\"" \o n.lit \o "\""
      [] n.tag = "List" ->
            "[" \o JoinStr([i \in 1..Len(n.items) |-> print_to_string(n.items[i])], ",") \o "]"
      [] n.tag = "Tuple" ->
            "(" \o JoinStr([i \in 1..Len(n.items) |-> print_to_string(n.items[i])], ", ") \o ")"
      [] OTHER -> "?"

\* format!("{:?}", input_files): the Debug rendering of a Vec<String>.
DebugFmt(files) ==
    "[" \o JoinStr([i \in 1..Len(files) |-> "\"" \o files[i] \o "\""], ", ") \o "]"

\* Sequences over S of length at most n.
SeqUpTo(S, n) == UNION {[1..k -> S] : k \in 0..n}

VARIABLES
    \* AqArgs
    output, query, query_expression, input_files,
    \* environment
    is_terminal, stdin_src, stdout_dev, out_dev,
    \* locals of main
    pc, texts, nodes, root,
    \* observable effects
    stdout, stderr, out_file, exit_status,
    \* history: the operations performed, in order, and the failure class
    log, failure

vars == <<output, query, query_expression, input_files,
          is_terminal, stdin_src, stdout_dev, out_dev,
          pc, texts, nodes, root,
          stdout, stderr, out_file, exit_status, log, failure>>

args == <<output, query, query_expression, input_files>>
env == <<is_terminal, stdin_src, stdout_dev, out_dev>>

Ev(op, arg) == [op |-> op, arg |-> arg]

(***************************************************************************)
(* State after AqArgs::parse().  QUERY_EXPRESSION is the first positional  *)
(* argument and INPUT_FILES the rest, so input files imply an expression.  *)
(***************************************************************************)
Init ==
    /\ output \in {None, Some("out.ason")}
    /\ query \in {None, Some("q.aql")}
    /\ query_expression \in {None, Some("."), Some(".id")}
    /\ input_files \in SeqUpTo(Paths, MaxFiles)
    /\ (input_files # <<>>) => (query_expression # None)
    /\ is_terminal \in BOOLEAN
    /\ stdin_src \in StdinSources
    /\ stdout_dev \in {"ok", "breaking", "broken"}
    /\ out_dev \in {"ok", "denied"}
    /\ pc = "start"
    /\ texts = <<>>
    /\ nodes = <<>>
    /\ root = None
    /\ stdout = <<>>
    /\ stderr = <<>>
    /\ out_file = None
    /\ exit_status = None
    /\ log = <<>>
    /\ failure = "none"

\* process::exit(code) after the eprintln! lines of a failure branch.
Exit(code, lines, class, events) ==
    /\ stderr' = stderr \o lines
    /\ exit_status' = Some(code)
    /\ failure' = class
    /\ log' = log \o events \o [i \in 1..Len(lines) |-> Ev("eprintln", lines[i])]
                  \o <<Ev("exit", "")>>
    /\ pc' = "exited"

\* Whether the next write to STDOUT succeeds: a "breaking" pipe takes one
\* write and fails from then on, a "broken" one fails at once.
StdoutAccepts == stdout_dev = "ok" \/ (stdout_dev = "breaking" /\ stdout = <<>>)

\* Mutant: the input files are used only when no query file is given.
SelectSource_QueryFile ==
    /\ pc = "start"
    /\ pc' = IF input_files # <<>> /\ query = None THEN "debug_print" ELSE "check_terminal"
    /\ UNCHANGED <<args, env, texts, nodes, root,
                   stdout, stderr, out_file, exit_status, log, failure>>

\* Line 131: the branch on input_files.is_empty().
SelectSource ==
    /\ pc = "start"
    /\ pc' = IF input_files # <<>> THEN "debug_print" ELSE "check_terminal"
    /\ UNCHANGED <<args, env, texts, nodes, root,
                   stdout, stderr, out_file, exit_status, log, failure>>

\* Line 134: println!("{:?}", input_files); println! panics when the write fails.
DebugPrint ==
    /\ pc = "debug_print"
    /\ IF StdoutAccepts
       THEN /\ stdout' = Append(stdout, DebugFmt(input_files))
            /\ log' = Append(log, Ev("stdout", DebugFmt(input_files)))
            /\ pc' = "read_files"
            /\ UNCHANGED <<stderr, exit_status, failure>>
       ELSE /\ Exit(PanicExitCode, <<"thread 'main' panicked: failed printing to stdout">>,
                    "panic", <<Ev("stdout_failed", DebugFmt(input_files))>>)
            /\ UNCHANGED stdout
    /\ UNCHANGED <<args, env, texts, nodes, root, out_file>>

\* Mutant: a read failure is reported and the loop goes on to the next file.
ReadFile_FailSlow ==
    /\ pc = "read_files"
    /\ Len(texts) < Len(input_files)
    /\ LET f == input_files[Len(texts) + 1] IN
         IF Readable(f)
         THEN /\ texts' = Append(texts, FileText(f))
              /\ log' = Append(log, Ev("open", f))
              /\ UNCHANGED <<pc, stderr, exit_status, failure>>
         ELSE /\ texts' = Append(texts, "")
              /\ stderr' = stderr \o <<"Fail to read the specified input file: \"" \o f \o "\".",
                                       IoErrorMsg>>
              /\ log' = Append(log, Ev("open", f))
              /\ failure' = "file_read"
              /\ UNCHANGED <<pc, exit_status>>
    /\ UNCHANGED <<args, env, nodes, root, stdout, out_file>>

\* Lines 136-148: one iteration of `for f in aq_args.input_files`.
ReadFile ==
    /\ pc = "read_files"
    /\ Len(texts) < Len(input_files)
    /\ LET f == input_files[Len(texts) + 1] IN
         IF Readable(f)
         THEN /\ texts' = Append(texts, FileText(f))
              /\ log' = Append(log, Ev("open", f))
              /\ UNCHANGED <<pc, stderr, exit_status, failure>>
         ELSE /\ Exit(1, <<"Fail to read the specified input file: \"" \o f \o "\".",
                           IoErrorMsg>>,
                      "file_read", <<Ev("open", f)>>)
              /\ UNCHANGED texts
    /\ UNCHANGED <<args, env, nodes, root, stdout, out_file>>

\* Mutant: the read loop may end after the first file.
ReadFilesDone_Early ==
    /\ pc = "read_files"
    /\ Len(texts) >= 1
    /\ pc' = "parse"
    /\ UNCHANGED <<args, env, texts, nodes, root,
                   stdout, stderr, out_file, exit_status, log, failure>>

\* Line 148: the loop over the input files ends.
ReadFilesDone ==
    /\ pc = "read_files"
    /\ Len(texts) = Len(input_files)
    /\ pc' = "parse"
    /\ UNCHANGED <<args, env, texts, nodes, root,
                   stdout, stderr, out_file, exit_status, log, failure>>

\* Mutant: the guard fires on a terminal whether or not a query expression is given.
CheckTerminal_IgnoreQuery ==
    /\ pc = "check_terminal"
    /\ IF is_terminal
       THEN Exit(1, <<"Usage: aq [OPTIONS] [QUERY_EXPRESSION]", "",
                      "For more information, try '--help'.">>,
                 "usage", <<Ev("is_terminal", "")>>)
       ELSE /\ pc' = "read_stdin"
            /\ log' = Append(log, Ev("is_terminal", ""))
            /\ UNCHANGED <<stderr, exit_status, failure>>
    /\ UNCHANGED <<args, env, texts, nodes, root, stdout, out_file>>

\* Lines 151-157: the interactive-terminal guard.
CheckTerminal ==
    /\ pc = "check_terminal"
    /\ IF is_terminal /\ query_expression = None
       THEN Exit(1, <<"Usage: aq [OPTIONS] [QUERY_EXPRESSION]", "",
                      "For more information, try '--help'.">>,
                 "usage", <<Ev("is_terminal", "")>>)
       ELSE /\ pc' = "read_stdin"
            /\ log' = Append(log, Ev("is_terminal", ""))
            /\ UNCHANGED <<stderr, exit_status, failure>>
    /\ UNCHANGED <<args, env, texts, nodes, root, stdout, out_file>>

\* Mutant: the text read from STDIN is not pushed to texts.
ReadStdin_DropText ==
    /\ pc = "read_stdin"
    /\ IF stdin_src # "EIO"
       THEN /\ log' = Append(log, Ev("read_stdin", ""))
            /\ pc' = "parse"
            /\ UNCHANGED <<texts, stderr, exit_status, failure>>
       ELSE /\ Exit(1, <<"Fail to read the input text from STDIN.", IoErrorMsg>>,
                    "stdin_read", <<Ev("read_stdin", "")>>)
            /\ UNCHANGED texts
    /\ UNCHANGED <<args, env, nodes, root, stdout, out_file>>

\* Lines 159-169: i.read_to_string(&mut buf).
ReadStdin ==
    /\ pc = "read_stdin"
    /\ IF stdin_src # "EIO"
       THEN /\ texts' = Append(texts, stdin_src)
            /\ log' = Append(log, Ev("read_stdin", ""))
            /\ pc' = "parse"
            /\ UNCHANGED <<stderr, exit_status, failure>>
       ELSE /\ Exit(1, <<"Fail to read the input text from STDIN.", IoErrorMsg>>,
                    "stdin_read", <<Ev("read_stdin", "")>>)
            /\ UNCHANGED texts
    /\ UNCHANGED <<args, env, nodes, root, stdout, out_file>>

\* Lines 174-184: one iteration of `for text in texts`.
ParseText ==
    /\ pc = "parse"
    /\ Len(nodes) < Len(texts)
    /\ LET text == texts[Len(nodes) + 1]
           r == parse_from_str(text) IN
         IF r.ok
         THEN /\ nodes' = Append(nodes, r.node)
              /\ log' = Append(log, Ev("parse", text))
              /\ UNCHANGED <<pc, stderr, exit_status, failure>>
         ELSE /\ Exit(1, <<with_source(text)>>, "parse", <<Ev("parse", text)>>)
              /\ UNCHANGED nodes
    /\ UNCHANGED <<args, env, texts, root, stdout, out_file>>

\* Line 184: the loop over the texts ends.
ParseDone ==
    /\ pc = "parse"
    /\ Len(nodes) = Len(texts)
    /\ pc' = "aggregate"
    /\ UNCHANGED <<args, env, texts, nodes, root,
                   stdout, stderr, out_file, exit_status, log, failure>>

\* Mutant: a single node is wrapped in a Tuple too.
RootOf_AlwaysWrap(ns) == Tuple(ns)

\* Lines 186-190: the root node of a list of nodes.
RootOf(ns) == IF Len(ns) = 1 THEN ns[1] ELSE Tuple(ns)

Aggregate ==
    /\ pc = "aggregate"
    /\ root' = Some(RootOf(nodes))
    /\ nodes' = IF Len(nodes) = 1 THEN <<>> ELSE nodes
    /\ pc' = "write"
    /\ log' = Append(log, Ev("aggregate", ""))
    /\ UNCHANGED <<args, env, texts,
                   stdout, stderr, out_file, exit_status, failure>>

\* Mutant: the write failure is reported without the underlying error.
WriteOutputFile_NoCause ==
    /\ pc = "write"
    /\ output # None
    /\ LET f == output[1]
           s == print_to_string(root[1]) IN
         IF out_dev = "ok"
         THEN /\ out_file' = Some(s)
              /\ log' = Append(log, Ev("write_file", s))
              /\ pc' = "end"
              /\ UNCHANGED <<stderr, exit_status, failure>>
         ELSE /\ Exit(1, <<"Fail to write to the output file: \"" \o f \o "\".">>,
                      "file_write", <<Ev("write_file_failed", s)>>)
              /\ UNCHANGED out_file
    /\ UNCHANGED <<args, env, texts, nodes, root, stdout>>

\* Lines 192-202: std::fs::write(&f, print_to_string(&root)).
WriteOutputFile ==
    /\ pc = "write"
    /\ output # None
    /\ LET f == output[1]
           s == print_to_string(root[1]) IN
         IF out_dev = "ok"
         THEN /\ out_file' = Some(s)
              /\ log' = Append(log, Ev("write_file", s))
              /\ pc' = "end"
              /\ UNCHANGED <<stderr, exit_status, failure>>
         ELSE /\ Exit(1, <<"Fail to write to the output file: \"" \o f \o "\".",
                           IoErrorMsg>>,
                      "file_write", <<Ev("write_file_failed", s)>>)
              /\ UNCHANGED out_file
    /\ UNCHANGED <<args, env, texts, nodes, root, stdout>>

\* Lines 203-215: print_to_writer(&mut w, &root) on the locked STDOUT.
WriteStdout ==
    /\ pc = "write"
    /\ output = None
    /\ LET s == print_to_string(root[1]) IN
         IF StdoutAccepts
         THEN /\ stdout' = Append(stdout, s)
              /\ log' = Append(log, Ev("stdout", s))
              /\ pc' = "end"
              /\ UNCHANGED <<stderr, exit_status, failure>>
         ELSE /\ Exit(1, <<"Fail to write to the STDOUT.", IoErrorMsg>>,
                      "stdout_write", <<Ev("stdout_failed", s)>>)
              /\ UNCHANGED stdout
    /\ UNCHANGED <<args, env, texts, nodes, root, out_file>>

\* Line 216: main returns, the process exits with status 0.
Return ==
    /\ pc = "end"
    /\ pc' = "exited"
    /\ exit_status' = Some(0)
    /\ log' = Append(log, Ev("exit", ""))
    /\ UNCHANGED <<args, env, texts, nodes, root,
                   stdout, stderr, out_file, failure>>

Next ==
    \/ SelectSource
    \/ DebugPrint
    \/ ReadFile
    \/ ReadFilesDone
    \/ CheckTerminal
    \/ ReadStdin
    \/ ParseText
    \/ ParseDone
    \/ Aggregate
    \/ WriteOutputFile
    \/ WriteStdout
    \/ Return

Spec == Init /\ [][Next]_vars

(***************************************************************************)
(* Operators used to state the properties.                                 *)
(***************************************************************************)
\* The arguments of the logged operations `op`, in the order performed.
OpArgs(op) ==
    LET s == SelectSeq(log, LAMBDA e : e.op = op) IN [i \in 1..Len(s) |-> s[i].arg]

Count(op) == Len(OpArgs(op))

IsPrefix(s, t) == Len(s) <= Len(t) /\ SubSeq(t, 1, Len(s)) = s

\* The least index of `s` whose element satisfies P, or 0 when there is none.
FirstIndex(s, P(_)) ==
    LET I == {i \in 1..Len(s) : P(s[i])} IN
      IF I = {} THEN 0 ELSE CHOOSE i \in I : \A j \in I : i <= j

Unreadable(f) == ~Readable(f)
Unparsable(t) == ~parse_from_str(t).ok

\* The texts of the sources of the run, in source order (all readable).
SourceTexts ==
    IF input_files # <<>>
    THEN [i \in 1..Len(input_files) |-> FileText(input_files[i])]
    ELSE <<stdin_src>>

\* The number of Raw Text Sources of the run.
NumSources == IF input_files # <<>> THEN Len(input_files) ELSE 1

UsageLines ==
    <<"Usage: aq [OPTIONS] [QUERY_EXPRESSION]", "", "For more information, try '--help'.">>

EarlyFailures == {"usage", "file_read", "stdin_read", "parse"}

\* C1: whenever the run fails before the render/write step (usage error, read
\* failure, parse failure), the output file is untouched, standard output has
\* received nothing and the exit status is 1.
C1_NoOutputOnEarlyFailure ==
    failure \in EarlyFailures =>
        /\ out_file = None
        /\ stdout = <<>>
        /\ exit_status = Some(1)

\* C2: exactly one destination is written per run: with an output path set
\* standard output receives nothing, and without one no file is written.
C2_ExactlyOneDestination ==
    /\ output # None => stdout = <<>>
    /\ output = None => out_file = None

\* C3: the root node is the parse of the single source when there is one
\* source, and otherwise the Tuple of the parses of all sources in source
\* order; the text written to the destination is the rendering of that root.
C3_AggregationResult ==
    root # None =>
        LET docs == [i \in 1..NumSources |-> parse_from_str(SourceTexts[i]).node] IN
          /\ \A i \in 1..NumSources : parse_from_str(SourceTexts[i]).ok
          /\ NumSources = 1 => root[1] = docs[1]
          /\ NumSources >= 2 => root[1].tag = "Tuple" /\ root[1].items = docs
          /\ out_file # None => out_file[1] = print_to_string(root[1])
          /\ (output = None /\ pc \in {"end", "exited"} /\ failure = "none")
                => stdout[Len(stdout)] = print_to_string(root[1])

C3_Witness ==
    /\ pc = "exited"
    /\ exit_status = Some(0)
    /\ input_files = <<"a.ason", "b.ason">>
    /\ out_file = Some("(11, \"x\")")

\* The condition of the guard of line 152, on the STDIN branch.
GuardCase == input_files = <<>> /\ is_terminal /\ query_expression = None

\* C4: with no input files, a terminal on standard input and no query
\* expression, the run ends with the usage message on the error stream and
\* exit status 1 and never reads standard input; with no input files and a
\* query expression present or standard input not a terminal, the guard does
\* not fire and standard input is read.
C4_TerminalGuard ==
    /\ GuardCase =>
         /\ Count("read_stdin") = 0
         /\ pc \notin {"start", "check_terminal"} =>
               /\ pc = "exited"
               /\ failure = "usage"
               /\ stderr = UsageLines
               /\ exit_status = Some(1)
    /\ (input_files = <<>> /\ ~GuardCase) =>
         /\ failure # "usage"
         /\ pc \notin {"start", "check_terminal", "read_stdin"} => Count("read_stdin") = 1

C4_Witness ==
    /\ GuardCase
    /\ pc = "exited"
    /\ failure = "usage"
    /\ log = <<Ev("is_terminal", "")>> \o [i \in 1..3 |-> Ev("eprintln", UsageLines[i])]
                 \o <<Ev("exit", "")>>

\* The outcome of a run over input files, as a function of the input files,
\* the output path and the environment alone.
FilesOutcome(files, out, sdev, odev) ==
    LET u == FirstIndex(files, Unreadable)
        ts == [i \in 1..Len(files) |-> FileText(files[i])]
        p == FirstIndex(ts, Unparsable)
        docs == [i \in 1..Len(ts) |-> parse_from_str(ts[i]).node]
        r == IF Len(docs) = 1 THEN docs[1] ELSE Tuple(docs)
        echo == <<DebugFmt(files)>>
        O(op, rt, of, so, ex) ==
            [opened |-> op, root |-> rt, out_file |-> of, stdout |-> so, exit |-> Some(ex)]
    IN  IF sdev = "broken" THEN O(<<>>, None, None, <<>>, PanicExitCode)
        ELSE IF u > 0 THEN O(SubSeq(files, 1, u), None, None, echo, 1)
        ELSE IF p > 0 THEN O(files, None, None, echo, 1)
        ELSE IF out # None
             THEN IF odev = "ok"
                  THEN O(files, Some(r), Some(print_to_string(r)), echo, 0)
                  ELSE O(files, Some(r), None, echo, 1)
        ELSE IF sdev = "ok"
             THEN O(files, Some(r), None, echo \o <<print_to_string(r)>>, 0)
             ELSE O(files, Some(r), None, echo, 1)

ListedFailures ==
    {"usage", "file_read", "stdin_read", "parse", "file_write", "stdout_write"}

RunSucceeded ==
    /\ IF input_files # <<>> THEN OpArgs("open") = input_files /\ Len(texts) = Len(input_files)
                             ELSE Count("read_stdin") = 1 /\ Len(texts) = 1
    /\ Count("parse") = Len(texts)
    /\ \A i \in 1..Len(texts) : parse_from_str(texts[i]).ok
    /\ IF output # None THEN out_file # None ELSE Count("stdout") >= 1 /\ root # None
    /\ failure = "none"

\* C8: a run ends with exit status 0 exactly when every source was read and
\* parsed and the write succeeded, with 1 on any failure, and with no other
\* status.
C8_ExitCodePolicy ==
    pc = "exited" =>
        /\ exit_status \in {Some(0), Some(1)}
        /\ exit_status = Some(0) <=> RunSucceeded
        /\ failure # "none" => exit_status = Some(1)

C10_AggregationPrecondition ==
    pc = "aggregate" =>
        /\ failure = "none"
        /\ IF input_files # <<>> THEN OpArgs("open") = input_files
                                 ELSE Count("read_stdin") = 1
        /\ texts = SourceTexts
        /\ Len(nodes) = NumSources
        /\ nodes = [i \in 1..Len(texts) |-> parse_from_str(texts[i]).node]
        /\ \A i \in 1..Len(texts) : parse_from_str(texts[i]).ok
        /\ Len(nodes) >= 1

C10_Witness ==
    /\ pc = "aggregate"
    /\ Len(nodes) >= 2
    /\ Len(nodes) = Len(input_files)

====
